---------------------------- MODULE Spec2Model ----------------------------
(***************************************************************************)
(* Author's Voice: the speech-transcript accumulator (the hook             *)
(* useSpeechRecognition, second half of src/exportService.ts) and the      *)
(* document store (src/storageService.ts).                                 *)
(*                                                                         *)
(* Strings are TLA+ strings, \o is JavaScript's +.  A handler is one       *)
(* action: React re-renders between two handlers, so a callback reads the  *)
(* state its handler started from.                                         *)
(***************************************************************************)
EXTENDS Integers, Sequences, FiniteSets, TLC

VARIABLES
    isListening,     \* useState(false)          src/exportService.ts:98
    error,           \* useState<string|null>    src/exportService.ts:99
    recognitionRef,  \* useRef: 0 is null, k > 0 the k-th session created
    confirmedText,   \* useState('')             src/exportService.ts:102
    interimText,     \* useState('')             src/exportService.ts:103
    available,       \* window.SpeechRecognition || window.webkitSpeechRecognition
    sessions,        \* the backend's session objects: sessions[k] is a status
    results,         \* event.results of the session recognitionRef holds
    now,             \* the clock Date.now() reads
    lsDocs,          \* localStorage entry DOCS_KEY
    lsManuscripts,   \* localStorage entry MANUSCRIPTS_KEY
    lsSettings,      \* localStorage entry USER_SETTINGS_KEY
    backupFile,      \* the last file written from createBackup()
    storage,         \* the browser's localStorage: "ok", "full" or "down"
    tabs,            \* per tab, a saveDocument call between its read and its write
    app,             \* App's useState values and the polish call in flight
    op               \* the handler that ran last, with its input and result

accVars   == <<isListening, error, recognitionRef, confirmedText, interimText>>
envVars   == <<available, sessions, results>>
storeVars == <<now, lsDocs, lsManuscripts, lsSettings, backupFile, storage, tabs>>
appVars   == <<app>>
vars      == <<accVars, envVars, storeVars, appVars, op>>

-----------------------------------------------------------------------------
(* Bounds *)

\* sessions one behaviour creates
MaxSessions == 2
\* slots the backend's result list of one session holds
MaxSlots == 3
\* slots of one kind (final, interim) one result event adds
MaxNew == 2
\* the clock stops at MaxTime
MaxTime == 2
\* characters of confirmed text the hook's specification follows
MaxText == 4
\* calls of crypto.randomUUID() the application's specification follows
MaxUuids == 2

Words == {"a", "b"}
Null == "null"
ErrorCodes == {"not-allowed", "service-not-allowed", "no-speech", "aborted", "network"}

SeqsUpTo(S, n) == UNION {[1..k -> S] : k \in 0..n}

-----------------------------------------------------------------------------
(* Transcript accumulator: useSpeechRecognition *)

fullTranscript == confirmedText \o interimText

\* window.SpeechRecognition missing
ErrUnsupported == "Speech recognition is not supported in this browser."
ErrDenied == "Microphone access denied or speech service unavailable."
ErrOccurred(errorType) == "Error occurred: " \o errorType

\* A session object is "starting" from start() to its start event, then
\* "running"; stop() makes it "stopping", and it may deliver one more result
\* event (the words in flight), which leaves it "flushed"; abort() makes it
\* "aborting"; an error event leaves it "failing"; an aborted session that
\* has reported its error, and a failing one that is aborted, is "cancelled";
\* the end event of a session, which follows each of these, leaves it "ended".
Capturing == {"starting", "running", "stopping", "flushed"}

\* faulty variant of Abort: the call is ignored
AbortIgnored(ss, k) == ss

\* abort() on a session object: a session that is capturing is torn down and
\* owes its end notification; one that is over ignores the call
Abort(ss, k) ==
    IF k > 0 /\ ss[k] \in Capturing
    THEN [ss EXCEPT ![k] = "aborting"]
    ELSE IF k > 0 /\ ss[k] = "failing"
    THEN [ss EXCEPT ![k] = "cancelled"]
    ELSE ss

\* stop() on a session object
Stop(ss, k) ==
    IF k > 0 /\ ss[k] \in {"starting", "running"}
    THEN [ss EXCEPT ![k] = "stopping"]
    ELSE ss

InitAcc ==
    /\ isListening = FALSE
    /\ error = Null
    /\ recognitionRef = 0
    /\ confirmedText = ""
    /\ interimText = ""
    /\ available \in BOOLEAN
    /\ sessions = <<>>
    /\ results = <<>>

\* faulty variant of startListening: setError(null) is forgotten
startListeningKeepsError ==
    /\ Len(sessions) < MaxSessions
    /\ IF ~available
       THEN /\ error' = ErrUnsupported
            /\ UNCHANGED <<recognitionRef, sessions, results>>
       ELSE /\ error' = error
            /\ sessions' = Append(Abort(sessions, recognitionRef), "starting")
            /\ recognitionRef' = Len(sessions) + 1
            /\ results' = <<>>
    /\ op' = [name |-> "start", hadError |-> error # Null]
    /\ UNCHANGED <<isListening, confirmedText, interimText, available, storeVars, appVars>>

startListening ==
    /\ Len(sessions) < MaxSessions
    /\ IF ~available
       THEN /\ error' = ErrUnsupported
            /\ UNCHANGED <<recognitionRef, sessions, results>>
       ELSE /\ error' = Null
            /\ sessions' = Append(Abort(sessions, recognitionRef), "starting")
            /\ recognitionRef' = Len(sessions) + 1
            /\ results' = <<>>
    /\ op' = [name |-> "start", hadError |-> error # Null]
    /\ UNCHANGED <<isListening, confirmedText, interimText, available, storeVars, appVars>>

onstart(k) ==
    /\ k \in DOMAIN sessions
    /\ sessions[k] = "starting"
    /\ sessions' = [sessions EXCEPT ![k] = "running"]
    /\ isListening' = TRUE
    /\ op' = [name |-> "onstart", session |-> k]
    /\ UNCHANGED <<error, recognitionRef, confirmedText, interimText,
                   available, results, storeVars, appVars>>

\* faulty variant of onend: setIsListening(false) is forgotten
onendKeepsListening(k) ==
    /\ k \in DOMAIN sessions
    /\ sessions[k] \in {"running", "stopping", "flushed", "aborting", "failing",
                       "cancelled"}
    /\ sessions' = [sessions EXCEPT ![k] = "ended"]
    /\ isListening' = isListening
    /\ op' = [name |-> "onend", session |-> k]
    /\ UNCHANGED <<error, recognitionRef, confirmedText, interimText,
                   available, results, storeVars, appVars>>

onend(k) ==
    /\ k \in DOMAIN sessions
    /\ sessions[k] \in {"running", "stopping", "flushed", "aborting", "failing",
                       "cancelled"}
    /\ sessions' = [sessions EXCEPT ![k] = "ended"]
    /\ isListening' = FALSE
    /\ op' = [name |-> "onend", session |-> k]
    /\ UNCHANGED <<error, recognitionRef, confirmedText, interimText,
                   available, results, storeVars, appVars>>

\* faulty variant of ErrorAfter: "no-speech" is reported like any other code
ErrorAfterNoisy(errorType, prev) ==
    IF errorType = "not-allowed" \/ errorType = "service-not-allowed"
    THEN ErrDenied
    ELSE ErrOccurred(errorType)

\* setError of onerror
ErrorAfter(errorType, prev) ==
    IF errorType = "not-allowed" \/ errorType = "service-not-allowed"
    THEN ErrDenied
    ELSE IF errorType # "no-speech" THEN ErrOccurred(errorType) ELSE prev

\* the backend reports "aborted" for a session that was aborted and the
\* other codes for one that is capturing; its end notification follows
onerror(k, errorType) ==
    /\ k \in DOMAIN sessions
    /\ IF errorType = "aborted"
       THEN sessions[k] = "aborting"
       ELSE sessions[k] \in Capturing
    /\ sessions' = [sessions EXCEPT ![k] = IF errorType = "aborted" THEN "cancelled"
                                                                    ELSE "failing"]
    /\ isListening' = FALSE
    /\ error' = ErrorAfter(errorType, error)
    /\ op' = [name |-> "onerror", session |-> k, code |-> errorType]
    /\ UNCHANGED <<recognitionRef, confirmedText, interimText,
                   available, results, storeVars, appVars>>

\* faulty variant of NewFinal: the space after a final segment is forgotten
RECURSIVE NewFinalNoSpace(_, _)
NewFinalNoSpace(res, i) ==
    IF i > Len(res) THEN ""
    ELSE (IF res[i].isFinal THEN res[i].transcript ELSE "")
         \o NewFinalNoSpace(res, i + 1)

\* the loop of onresult, i counting slots from 1: newFinal
RECURSIVE NewFinal(_, _)
NewFinal(res, i) ==
    IF i > Len(res) THEN ""
    ELSE (IF res[i].isFinal THEN res[i].transcript \o " " ELSE "")
         \o NewFinal(res, i + 1)

\* faulty variant of NewInterim: newInterim = ..., the last interim slot alone
RECURSIVE NewInterimLast(_, _)
NewInterimLast(res, i) ==
    IF i > Len(res) THEN ""
    ELSE IF ~res[i].isFinal /\ \A j \in (i + 1)..Len(res) : res[j].isFinal
         THEN res[i].transcript
         ELSE NewInterimLast(res, i + 1)

\* the loop of onresult: newInterim
RECURSIVE NewInterim(_, _)
NewInterim(res, i) ==
    IF i > Len(res) THEN ""
    ELSE (IF res[i].isFinal THEN "" ELSE res[i].transcript)
         \o NewInterim(res, i + 1)

Slots(ws, final) == [i \in 1..Len(ws) |-> [transcript |-> ws[i], isFinal |-> final]]

\* the final slots of a result list
Finals(res) == SelectSeq(res, LAMBDA s : s.isFinal)

\* A result event of the session the hook holds.  The backend keeps the
\* final slots of its list, drops the interim ones and appends the newly
\* final slots followed by the current interim ones; event.resultIndex is
\* the first slot that changed, the old number of final slots.
onresult(newFinals, newInterims) ==
    LET k == recognitionRef
        resultIndex == Len(Finals(results))
        res == Finals(results) \o Slots(newFinals, TRUE) \o Slots(newInterims, FALSE)
        newFinal == NewFinal(res, resultIndex + 1)
        newInterim == NewInterim(res, resultIndex + 1)
    IN  /\ k > 0
        /\ sessions[k] \in {"running", "stopping"}
        /\ Len(newFinals) + Len(newInterims) > 0
        /\ Len(res) <= MaxSlots
        /\ results' = res
        /\ sessions' = IF sessions[k] = "stopping"
                       THEN [sessions EXCEPT ![k] = "flushed"]
                       ELSE sessions
        /\ confirmedText' = IF newFinal # "" THEN confirmedText \o newFinal
                                             ELSE confirmedText
        /\ interimText' = newInterim
        /\ op' = [name |-> "onresult", resultIndex |-> resultIndex, results |-> res]
        /\ UNCHANGED <<isListening, error, recognitionRef, available, storeVars, appVars>>

\* faulty variant of Committed: stop() clears the interim text without keeping it
CommittedNothing(prev, interim) == prev

\* setConfirmedText(prev => prev + interimText)
Committed(prev, interim) == prev \o interim

stopListening ==
    /\ IF recognitionRef # 0
       THEN /\ sessions' = Stop(sessions, recognitionRef)
            /\ confirmedText' = Committed(confirmedText, interimText)
            /\ interimText' = ""
       ELSE UNCHANGED <<sessions, confirmedText, interimText>>
    /\ op' = [name |-> "stop", interim |-> interimText]
    /\ UNCHANGED <<isListening, error, recognitionRef, available, results, storeVars, appVars>>

\* faulty variant of resetTranscript: setInterimText('') is forgotten
resetTranscriptKeepsInterim ==
    /\ confirmedText' = ""
    /\ sessions' = Abort(sessions, recognitionRef)
    /\ isListening' = FALSE
    /\ op' = [name |-> "reset", wasListening |-> isListening,
              interim |-> interimText]
    /\ UNCHANGED <<interimText, error, recognitionRef, available, results, storeVars, appVars>>

resetTranscript ==
    /\ confirmedText' = ""
    /\ interimText' = ""
    /\ sessions' = Abort(sessions, recognitionRef)
    /\ isListening' = FALSE
    /\ op' = [name |-> "reset", wasListening |-> isListening,
              interim |-> interimText]
    /\ UNCHANGED <<error, recognitionRef, available, results, storeVars, appVars>>

setTranscript(text) ==
    /\ confirmedText' = text
    /\ interimText' = ""
    /\ op' = [name |-> "setTranscript", text |-> text]
    /\ UNCHANGED <<isListening, error, recognitionRef, available,
                   sessions, results, storeVars, appVars>>

-----------------------------------------------------------------------------
(* Document store: storageService.ts *)

\* a property whose value is undefined (manuscriptId?: string)
Undefined == "undefined"

\* JSON text is held as the tree it parses to; Garbage is text that does not
\* parse, NoItem is localStorage.getItem's null for a missing key
JArr(seq) == [t |-> "array", v |-> seq]
JObj(rec) == [t |-> "object", v |-> rec]
JNull == [t |-> "null"]
Garbage == [t |-> "garbage"]
NoItem == [t |-> "absent"]

\* reading a property of a parsed record: a missing one reads undefined
ManuscriptIdOf(d) == IF "manuscriptId" \in DOMAIN d THEN d.manuscriptId ELSE Undefined

\* JSON.stringify of a Document: a property that is undefined is left out
StringifyDoc(d) ==
    IF "manuscriptId" \in DOMAIN d /\ d.manuscriptId = Undefined
    THEN [f \in DOMAIN d \ {"manuscriptId"} |-> d[f]]
    ELSE d

\* JSON.stringify of Document[] and of Manuscript[]
StringifyDocs(list) == JArr([i \in 1..Len(list) |-> StringifyDoc(list[i])])
StringifyList(list) == JArr(list)

\* JSON.stringify of UserSettings | null
StringifySettings(s) == IF s = JNull THEN JNull ELSE JObj(s)

\* data ? JSON.parse(data) : []  inside try/catch, for the two collections
ParseList(item) == IF item.t = "array" THEN item.v ELSE <<>>

\* localStorage.getItem(key): it throws while the storage is down
getItem(entry) == IF storage = "down" THEN Garbage ELSE entry

\* faulty variant of setItem: the write goes through whatever the storage says
setItemAnyway(entry, value) == value

\* localStorage.setItem(key, value) as the new content of the entry: it throws
\* while the storage is full or down, and the entry keeps what it held
setItem(entry, value) == IF storage = "ok" THEN value ELSE entry

\* a call of setItem throws
Throws == storage # "ok"

getUserSettings == IF getItem(lsSettings).t = "object" THEN lsSettings.v ELSE JNull
getManuscripts == ParseList(getItem(lsManuscripts))
getDocuments == ParseList(getItem(lsDocs))

\* faulty variant of FindIndex: no record is ever found
FindIndexNever(list, id) == 0

\* Array.prototype.findIndex on the id, counting from 1; 0 is JavaScript's -1
FindIndex(list, id) ==
    IF \E i \in 1..Len(list) : list[i].id = id
    THEN CHOOSE i \in 1..Len(list) :
            /\ list[i].id = id
            /\ \A j \in 1..(i - 1) : list[j].id # id
    ELSE 0

getDocumentsByManuscript(manuscriptId) ==
    SelectSeq(getDocuments, LAMBDA d : ManuscriptIdOf(d) = manuscriptId)

\* docs.find(d => d.id === id): the first match, or Undefined as a record
NoDocument == [t |-> "undefined"]
Find(list, id) ==
    LET i == FindIndex(list, id)
    IN  IF i = 0 THEN NoDocument ELSE list[i]

getDocument(id) == Find(getDocuments, id)

\* the tabs that have the application open
Tabs == {"tab1", "tab2"}
Idle == [pc |-> "idle"]

\* the later of two readings of Date.now() within one call
LaterReadings == {t \in {now, now + 1} : t <= MaxTime}

InitStore ==
    /\ now = 0
    /\ lsDocs = NoItem
    /\ lsManuscripts = NoItem
    /\ lsSettings = NoItem
    /\ backupFile = NoItem
    /\ storage = "ok"
    /\ tabs = [t \in Tabs |-> Idle]

\* time passes between two handlers
tick ==
    /\ now < MaxTime
    /\ now' = now + 1
    /\ op' = [name |-> "tick"]
    /\ UNCHANGED <<lsDocs, lsManuscripts, lsSettings, backupFile, storage, tabs, accVars, envVars, appVars>>

saveUserSettings(settings) ==
    /\ lsSettings' = setItem(lsSettings, StringifySettings(settings))
    /\ op' = [name |-> "saveUserSettings"]
    /\ UNCHANGED <<now, lsDocs, lsManuscripts, backupFile, storage, tabs, accVars, envVars, appVars>>

\* the record saveManuscript / saveDocument stores: the caller's record with
\* updatedAt refreshed and, for a new id, createdAt set
Updated(rec, index, t1, t2) ==
    IF index > 0
    THEN [rec EXCEPT !.updatedAt = t1]
    ELSE [rec EXCEPT !.updatedAt = t1, !.createdAt = t2]

\* faulty variant of Upsert: the record is pushed whether or not the id exists
UpsertPush(list, index, updated) == Append(list, updated)

\* list[index] = updated, or list.push(updated)
Upsert(list, index, updated) ==
    IF index > 0 THEN [list EXCEPT ![index] = updated] ELSE Append(list, updated)

saveManuscript(manuscript) ==
    LET list == getManuscripts
        index == FindIndex(list, manuscript.id)
    IN  \E t2 \in (IF index > 0 THEN {now} ELSE LaterReadings) :
          LET updated == Updated(manuscript, index, now, t2)
          IN  /\ lsManuscripts' = setItem(lsManuscripts, StringifyList(Upsert(list, index, updated)))
              /\ now' = t2
              /\ op' = [name |-> "saveManuscript", id |-> manuscript.id,
                        isNew |-> index = 0, threw |-> Throws]
              /\ UNCHANGED <<lsDocs, lsSettings, backupFile, storage, tabs, accVars, envVars, appVars>>

saveDocument(doc) ==
    LET docs == getDocuments
        index == FindIndex(docs, doc.id)
    IN  \E t2 \in (IF index > 0 THEN {now} ELSE LaterReadings) :
          LET updatedDoc == Updated(doc, index, now, t2)
          IN  /\ lsDocs' = setItem(lsDocs, StringifyDocs(Upsert(docs, index, updatedDoc)))
              /\ now' = t2
              /\ op' = [name |-> "saveDocument", arg |-> doc, isNew |-> index = 0,
                        threw |-> Throws]
              /\ UNCHANGED <<lsManuscripts, lsSettings, backupFile, storage, tabs, accVars, envVars, appVars>>

\* saveDocument in a tab, up to the point where getDocuments() has returned:
\* the tab holds the list it read
tabRead(t, doc) ==
    /\ tabs[t] = Idle
    /\ tabs' = [tabs EXCEPT ![t] = [pc |-> "read", docs |-> getDocuments, doc |-> doc]]
    /\ op' = [name |-> "tabRead", tab |-> t]
    /\ UNCHANGED <<now, lsDocs, lsManuscripts, lsSettings, backupFile, storage,
                   accVars, envVars, appVars>>

\* faulty variant of tabWrite: the list is read again at the time of the write
tabWriteFresh(t) ==
    /\ tabs[t].pc = "read"
    /\ LET docs == getDocuments
           doc == tabs[t].doc
           index == FindIndex(docs, doc.id)
           updatedDoc == Updated(doc, index, now, now)
       IN  /\ lsDocs' = setItem(lsDocs, StringifyDocs(Upsert(docs, index, updatedDoc)))
           /\ op' = [name |-> "tabWrite", tab |-> t, arg |-> doc,
                     read |-> tabs[t].docs, threw |-> Throws,
                     stored |-> {getDocuments[i].id : i \in 1..Len(getDocuments)}]
    /\ tabs' = [tabs EXCEPT ![t] = Idle]
    /\ UNCHANGED <<now, lsManuscripts, lsSettings, backupFile, storage, accVars, envVars, appVars>>

\* the rest of saveDocument in that tab: the list it read, with its document,
\* is written
tabWrite(t) ==
    /\ tabs[t].pc = "read"
    /\ LET docs == tabs[t].docs
           doc == tabs[t].doc
           index == FindIndex(docs, doc.id)
           updatedDoc == Updated(doc, index, now, now)
       IN  /\ lsDocs' = setItem(lsDocs, StringifyDocs(Upsert(docs, index, updatedDoc)))
           /\ op' = [name |-> "tabWrite", tab |-> t, arg |-> doc,
                     read |-> docs, threw |-> Throws,
                     stored |-> {getDocuments[i].id : i \in 1..Len(getDocuments)}]
    /\ tabs' = [tabs EXCEPT ![t] = Idle]
    /\ UNCHANGED <<now, lsManuscripts, lsSettings, backupFile, storage, accVars, envVars, appVars>>

\* faulty variant of WithoutId: the filter keeps nothing
WithoutIdAll(list, id) == <<>>

\* list.filter(m => m.id !== id)
WithoutId(list, id) == SelectSeq(list, LAMBDA m : m.id # id)

deleteDocument(id) ==
    /\ lsDocs' = setItem(lsDocs, StringifyDocs(WithoutId(getDocuments, id)))
    /\ op' = [name |-> "deleteDocument", id |-> id,
              removed |-> Len(getDocuments) - Len(WithoutId(getDocuments, id)),
              threw |-> Throws]
    /\ UNCHANGED <<now, lsManuscripts, lsSettings, backupFile, storage, tabs, accVars, envVars, appVars>>

\* faulty variant of WithoutChapters: the chapters are not removed
WithoutChaptersKept(docs, id) == docs

\* docs.filter(doc => doc.manuscriptId !== id)
WithoutChapters(docs, id) == SelectSeq(docs, LAMBDA d : ManuscriptIdOf(d) # id)

deleteManuscript(id) ==
    /\ lsManuscripts' = setItem(lsManuscripts, StringifyList(WithoutId(getManuscripts, id)))
    /\ lsDocs' = setItem(lsDocs, StringifyDocs(WithoutChapters(getDocuments, id)))
    /\ op' = [name |-> "deleteManuscript", id |-> id,
              removed |-> Len(getDocumentsByManuscript(id))]
    /\ UNCHANGED <<now, lsSettings, backupFile, storage, tabs, accVars, envVars, appVars>>

\* faulty variant of SortByCreatedAt: the chapters stay in stored order
Unsorted(list) == list

\* chapters.sort((a, b) => a.createdAt - b.createdAt): stable, ascending
RECURSIVE SortByCreatedAt(_)
SortByCreatedAt(list) ==
    IF Len(list) = 0 THEN <<>>
    ELSE LET last == list[Len(list)]
             front == SortByCreatedAt(SubSeq(list, 1, Len(list) - 1))
             keep == Cardinality({i \in 1..Len(front) :
                                    front[i].createdAt <= last.createdAt})
         IN  SubSeq(front, 1, keep) \o <<last>> \o SubSeq(front, keep + 1, Len(front))

\* chapter.polishedText || chapter.rawText || ""
ContentOf(chapter) ==
    IF chapter.polishedText # "" THEN chapter.polishedText ELSE chapter.rawText

\* `--- ${chapter.title} ---\n\n${content}\n\n`
Block(chapter) ==
    "--- " \o chapter.title \o " ---\n\n" \o ContentOf(chapter) \o "\n\n"

\* chapters.map(...).join("")
RECURSIVE JoinBlocks(_)
JoinBlocks(chapters) ==
    IF Len(chapters) = 0 THEN ""
    ELSE Block(Head(chapters)) \o JoinBlocks(Tail(chapters))

\* faulty variant of compileManuscript: the manuscript is not looked up
compileManuscriptUnresolved(manuscriptId) ==
    JoinBlocks(SortByCreatedAt(getDocumentsByManuscript(manuscriptId)))

compileManuscript(manuscriptId) ==
    IF FindIndex(getManuscripts, manuscriptId) = 0 THEN ""
    ELSE JoinBlocks(SortByCreatedAt(getDocumentsByManuscript(manuscriptId)))

\* a call of compileManuscript: it reads, and writes nothing
callCompileManuscript(manuscriptId) ==
    /\ op' = [name |-> "compileManuscript", id |-> manuscriptId,
              ret |-> compileManuscript(manuscriptId)]
    /\ UNCHANGED <<storeVars, accVars, envVars, appVars>>

\* faulty variant of createBackup: documents: getManuscripts()
createBackupMixed ==
    JObj([manuscripts |-> StringifyList(getManuscripts),
          documents |-> StringifyList(getManuscripts),
          userSettings |-> StringifySettings(getUserSettings),
          version |-> 1,
          timestamp |-> now])

\* JSON.stringify(data, null, 2) of the BackupData object
createBackup ==
    JObj([manuscripts |-> StringifyList(getManuscripts),
          documents |-> StringifyDocs(getDocuments),
          userSettings |-> StringifySettings(getUserSettings),
          version |-> 1,
          timestamp |-> now])

\* LibraryView's handleDownloadBackup: the text of createBackup() becomes a file
handleDownloadBackup ==
    /\ backupFile' = createBackup
    /\ op' = [name |-> "createBackup"]
    /\ UNCHANGED <<now, lsDocs, lsManuscripts, lsSettings, storage, tabs, accVars, envVars, appVars>>

\* Array.isArray(data.field) for the object JSON.parse returned
IsArrayField(data, field) == field \in DOMAIN data.v /\ data.v[field].t = "array"

\* faulty variant of HasSettings: the field only has to be there
HasSettingsField(data) == "userSettings" \in DOMAIN data.v

\* if (data.userSettings)
HasSettings(data) ==
    "userSettings" \in DOMAIN data.v /\ data.v.userSettings.t \in {"object", "array"}

\* faulty variant of RestoreAccepts: documents is only required to be there
RestoreAcceptsLoose(jsonData) ==
    /\ jsonData.t = "object"
    /\ IsArrayField(jsonData, "manuscripts")
    /\ "documents" \in DOMAIN jsonData.v

\* JSON.parse(jsonData) throws on text that is no JSON; data.manuscripts throws
\* on null; an array has no such properties
RestoreAccepts(jsonData) ==
    /\ jsonData.t = "object"
    /\ IsArrayField(jsonData, "manuscripts")
    /\ IsArrayField(jsonData, "documents")

\* a setItem that throws is caught like a parse error: the first one throws
\* while the storage is full or down, so nothing is written
restoreBackup(jsonData) ==
    /\ IF RestoreAccepts(jsonData)
       THEN /\ lsManuscripts' = setItem(lsManuscripts, jsonData.v.manuscripts)
            /\ lsDocs' = setItem(lsDocs, jsonData.v.documents)
            /\ lsSettings' = IF HasSettings(jsonData)
                              THEN setItem(lsSettings, jsonData.v.userSettings)
                              ELSE lsSettings
       ELSE UNCHANGED <<lsManuscripts, lsDocs, lsSettings>>
    /\ op' = [name |-> "restoreBackup", arg |-> jsonData,
              ret |-> RestoreAccepts(jsonData) /\ ~Throws, prev |-> op.name]
    /\ UNCHANGED <<now, backupFile, storage, tabs, accVars, envVars, appVars>>

-----------------------------------------------------------------------------
(* The application: App.tsx and EditView *)

LIBRARY == "LIBRARY"
RECORDING == "RECORDING"
EDITING == "EDITING"
AppState == {LIBRARY, RECORDING, EDITING}

\* crypto.randomUUID(): the n-th call returns an id no earlier call returned
Uuids == <<"u1", "u2", "u3", "u4", "u5">>
randomUUID(n) == Uuids[n]

\* the ids randomUUID() has returned so far
Issued == {randomUUID(n) : n \in 1..app.uuids}

NoPolish == [pc |-> "idle"]

\* useState initial values; no cleanUpTranscription call is in flight
InitApp ==
    app = [view |-> LIBRARY, currentDocId |-> Null, currentManuscriptId |-> Undefined,
           docTitle |-> "", docTags |-> <<>>, polishedText |-> "",
           uuids |-> 0, polish |-> NoPolish]

\* const transcript = confirmedText + interimText, as the render computed it
transcript == fullTranscript

\* what the handlers of one render close over
Closure ==
    [currentDocId |-> app.currentDocId, currentManuscriptId |-> app.currentManuscriptId,
     docTitle |-> app.docTitle, docTags |-> app.docTags,
     polishedText |-> app.polishedText, transcript |-> transcript]

\* docToSave of handleSaveDocument, from the values its render closed over
docToSave(c, uuids) ==
    [id |-> IF c.currentDocId # Null THEN c.currentDocId ELSE randomUUID(uuids + 1),
     manuscriptId |-> c.currentManuscriptId,
     title |-> IF c.docTitle # "" THEN c.docTitle ELSE "Untitled Manuscript",
     rawText |-> c.transcript,
     polishedText |-> c.polishedText,
     tags |-> c.docTags,
     createdAt |-> now,
     updatedAt |-> now]

\* saveDocument(docToSave) as the new content of the documents entry
SavedDocs(doc) ==
    LET docs == getDocuments
        index == FindIndex(docs, doc.id)
    IN  setItem(lsDocs, StringifyDocs(Upsert(docs, index, Updated(doc, index, now, now))))

\* handleSaveDocument's state updates: a call of randomUUID() when the closure
\* holds no id, and setCurrentDocId(savedDoc.id) unless saveDocument threw
AfterSave(a, c) ==
    IF c.currentDocId # Null THEN a
    ELSE [a EXCEPT !.uuids = a.uuids + 1,
                   !.currentDocId = IF Throws THEN a.currentDocId
                                    ELSE randomUUID(a.uuids + 1)]

\* the save is possible within the ids the specification follows
CanSave(c) == c.currentDocId # Null \/ app.uuids < MaxUuids

\* EditView's Save Draft: handleSaveInternal() calls onSave of the current render
handleSaveDocument ==
    /\ app.view = EDITING
    /\ CanSave(Closure)
    /\ lsDocs' = SavedDocs(docToSave(Closure, app.uuids))
    /\ app' = AfterSave(app, Closure)
    /\ op' = [name |-> "handleSaveDocument", id |-> docToSave(Closure, app.uuids).id]
    /\ UNCHANGED <<now, lsManuscripts, lsSettings, backupFile, storage, tabs,
                   accVars, envVars>>

\* EditView's handleDelete, confirmed, calls onDelete = handleDeleteDocument
handleDeleteDocument ==
    /\ app.view = EDITING
    /\ IF app.currentDocId # Null
       THEN /\ lsDocs' = setItem(lsDocs, StringifyDocs(WithoutId(getDocuments, app.currentDocId)))
            /\ app' = [app EXCEPT !.view = LIBRARY]
       ELSE UNCHANGED <<lsDocs, app>>
    /\ op' = [name |-> "handleDeleteDocument", id |-> app.currentDocId]
    /\ UNCHANGED <<now, lsManuscripts, lsSettings, backupFile, storage, tabs,
                   accVars, envVars>>

\* LibraryView's handleDeleteDoc, confirmed: deleteDocument(id) of a listed document
handleDeleteDoc(id) ==
    /\ app.view = LIBRARY
    /\ \E i \in 1..Len(getDocuments) : getDocuments[i].id = id
    /\ deleteDocument(id)

\* a pending call of cleanUpTranscription belongs to the document that was
\* open when it was made
Orphaned(polish) ==
    IF polish.pc = "idle" THEN polish ELSE [polish EXCEPT !.current = FALSE]

handleOpenDocument(doc) ==
    /\ app.view = LIBRARY
    /\ app' = [app EXCEPT !.currentDocId = doc.id,
                          !.currentManuscriptId = ManuscriptIdOf(doc),
                          !.docTitle = doc.title,
                          !.docTags = doc.tags,
                          !.polishedText = doc.polishedText,
                          !.view = EDITING,
                          !.polish = Orphaned(app.polish)]
    /\ confirmedText' = doc.rawText
    /\ interimText' = ""
    /\ op' = [name |-> "handleOpenDocument", id |-> doc.id]
    /\ UNCHANGED <<isListening, error, recognitionRef, envVars, storeVars>>

handleNewDocument(manuscriptId) ==
    /\ app.view = LIBRARY
    /\ app' = [app EXCEPT !.currentDocId = Null,
                          !.currentManuscriptId = manuscriptId,
                          !.docTitle = "",
                          !.docTags = <<>>,
                          !.polishedText = "",
                          !.view = RECORDING,
                          !.polish = Orphaned(app.polish)]
    /\ confirmedText' = ""
    /\ interimText' = ""
    /\ sessions' = Abort(sessions, recognitionRef)
    /\ isListening' = FALSE
    /\ op' = [name |-> "handleNewDocument"]
    /\ UNCHANGED <<error, recognitionRef, available, results, storeVars>>

\* RecordView's button: onStart while not listening, onStop while listening
handleStartRecording == app.view = RECORDING /\ ~isListening /\ startListening
handleStopRecording == app.view = RECORDING /\ isListening /\ stopListening

\* the title input of RecordView and EditView
setDocTitle(title) ==
    /\ app.view \in {RECORDING, EDITING}
    /\ app' = [app EXCEPT !.docTitle = title]
    /\ op' = [name |-> "setDocTitle"]
    /\ UNCHANGED <<accVars, envVars, storeVars>>

\* the text areas of RecordView and of EditView's raw tab: both are given
\* setTranscript
typeTranscript(text) == app.view \in {RECORDING, EDITING} /\ setTranscript(text)

\* faulty variant of ShouldAutoSave: every navigation saves
ShouldAutoSaveAlways(targetView, text, title) == TRUE

\* if (targetView === AppState.LIBRARY) { if (transcript || docTitle) ...
ShouldAutoSave(targetView, text, title) ==
    targetView = LIBRARY /\ (text # "" \/ title # "")

\* a navigation button; confirmed is the user's answer to confirm(), asked
\* while the recording view is listening
handleNavClick(targetView, confirmed) ==
    LET asked == app.view = RECORDING /\ isListening
        save == ShouldAutoSave(targetView, transcript, app.docTitle)
    IN  /\ asked \/ confirmed
        /\ IF asked /\ ~confirmed
           THEN UNCHANGED <<sessions, confirmedText, interimText, lsDocs, app>>
           ELSE /\ IF asked /\ recognitionRef # 0
                   THEN /\ sessions' = Stop(sessions, recognitionRef)
                        /\ confirmedText' = Committed(confirmedText, interimText)
                        /\ interimText' = ""
                   ELSE UNCHANGED <<sessions, confirmedText, interimText>>
                /\ save => CanSave(Closure)
                /\ lsDocs' = IF save THEN SavedDocs(docToSave(Closure, app.uuids))
                                     ELSE lsDocs
                /\ app' = [(IF save THEN AfterSave(app, Closure) ELSE app)
                              EXCEPT !.view = targetView]
        /\ op' = [name |-> "handleNavClick", target |-> targetView,
                  cancelled |-> asked /\ ~confirmed, transcript |-> transcript]
        /\ UNCHANGED <<isListening, error, recognitionRef, available, results,
                       now, lsManuscripts, lsSettings, backupFile, storage, tabs>>

\* EditView's back button: onBack = () => setView(AppState.LIBRARY)
onBack ==
    /\ app.view = EDITING
    /\ app' = [app EXCEPT !.view = LIBRARY]
    /\ op' = [name |-> "onBack"]
    /\ UNCHANGED <<accVars, envVars, storeVars>>

\* rawText.trim(): the texts of the specification hold spaces only
Trim(text) == IF text \in {"", " ", "  "} THEN "" ELSE text

\* handlePolish up to its await: the call is made with rawText and the
\* continuation keeps onSave of the render that handled the click
handlePolish ==
    /\ app.view = EDITING
    /\ app.polish = NoPolish
    /\ Trim(transcript) # ""
    /\ app' = [app EXCEPT !.polish = [pc |-> "pending", current |-> TRUE,
                                      onSave |-> Closure]]
    /\ op' = [name |-> "handlePolish"]
    /\ UNCHANGED <<accVars, envVars, storeVars>>

\* handlePolish after the await when cleanUpTranscription returned result:
\* setPolishedText(result), then handleSaveInternal(result) calls onSave()
polishResolved(result) ==
    LET c == app.polish.onSave
    IN  /\ app.polish.pc = "pending"
        /\ CanSave(c)
        /\ lsDocs' = SavedDocs(docToSave(c, app.uuids))
        /\ app' = [AfterSave(app, c) EXCEPT !.polishedText = result,
                                            !.polish = NoPolish]
        /\ op' = [name |-> "polishResolved", result |-> result,
                  id |-> docToSave(c, app.uuids).id, current |-> app.polish.current]
        /\ UNCHANGED <<now, lsManuscripts, lsSettings, backupFile, storage, tabs,
                       accVars, envVars>>

\* faulty variant of Caught: the failed call clears the polished text
CaughtClears(a) == [a EXCEPT !.polishedText = "", !.polish = NoPolish]

\* the catch and finally branches of handlePolish: alert(), setIsProcessing(false)
Caught(a) == [a EXCEPT !.polish = NoPolish]

\* handlePolish after the await when cleanUpTranscription threw
polishRejected ==
    /\ app.polish.pc = "pending"
    /\ app' = Caught(app)
    /\ op' = [name |-> "polishRejected",
              alert |-> "Failed to polish text. Check your API configuration."]
    /\ UNCHANGED <<accVars, envVars, storeVars>>

-----------------------------------------------------------------------------
(* Inputs *)

DocIds == {"d1", "d2", "d3"}
MsIds == {"m1", "m2"}

ContentA == [title |-> "A", rawText |-> "r", polishedText |-> "", tags |-> <<>>]
ContentB == [title |-> "B", rawText |-> "s", polishedText |-> "p", tags |-> <<"t">>]
ContentC == [title |-> "C", rawText |-> "", polishedText |-> "", tags |-> <<"t", "u">>]
Contents == {ContentA, ContentB, ContentC}

\* a Document a caller passes: any content, a timestamp it read earlier
DocInput(id, manuscriptId, c, t) ==
    [id |-> id, manuscriptId |-> manuscriptId, title |-> c.title,
     rawText |-> c.rawText, polishedText |-> c.polishedText, tags |-> c.tags,
     createdAt |-> t, updatedAt |-> t]

\* SpecSave: two ids, in a manuscript or standalone
SaveIds == {"d1", "d2"}
SaveInputs ==
    {DocInput(id, "m1", ContentA, t) : id \in SaveIds, t \in 0..now}
    \cup {DocInput(id, Undefined, ContentB, t) : id \in SaveIds, t \in 0..now}

\* handleCreateManuscript passes Date.now() twice
MsInputs ==
    {[id |-> "m1", title |-> "M", createdAt |-> now, updatedAt |-> now]}

SettingsInputs == {[userName |-> "u", hasCompletedOnboarding |-> TRUE]}

\* what a file that is no backup of this store may hold
BadBlobs ==
    {Garbage, JNull, JArr(<<>>), JObj([version |-> 1]),
     JObj([manuscripts |-> JArr(<<>>)]),
     JObj([documents |-> JArr(<<>>)]),
     JObj([manuscripts |-> JArr(<<>>), documents |-> JNull]),
     JObj([manuscripts |-> JObj([id |-> "m1"]), documents |-> JArr(<<>>)])}

\* a backup file with one of its two collections cut out
Damaged(b) ==
    IF b.t # "object" THEN {}
    ELSE {JObj([f \in DOMAIN b.v \ {g} |-> b.v[f]]) : g \in {"manuscripts", "documents"}}

-----------------------------------------------------------------------------
(* Specifications *)

\* a store that is not used: the accumulator's specifications leave it alone
InitStoreIdle == InitStore

\* an accumulator that is not used: the store's specifications leave it alone
InitAccIdle == InitAcc /\ available = TRUE

\* saveDocument, saveManuscript and deleteDocument while time passes
InitSave == InitAccIdle /\ InitStore /\ InitApp /\ op = [name |-> "init"]

NextSave ==
    \/ tick
    \/ \E doc \in SaveInputs : saveDocument(doc)
    \/ \E m \in MsInputs : saveManuscript(m)
    \/ \E id \in SaveIds : deleteDocument(id)

SpecSave == InitSave /\ [][NextSave]_vars

\* deleteManuscript among three documents and two manuscripts, all written
\* within one reading of the clock
CascadeInputs ==
    {DocInput(id, m, ContentA, now) : id \in DocIds, m \in MsIds \cup {Undefined}}

CascadeMsInputs ==
    {[id |-> id, title |-> "M", createdAt |-> now, updatedAt |-> now] : id \in MsIds}

NextCascade ==
    \/ \E doc \in CascadeInputs : saveDocument(doc) /\ now' = now
    \/ \E m \in CascadeMsInputs : saveManuscript(m) /\ now' = now
    \/ \E id \in MsIds : deleteManuscript(id)

SpecCascade == InitSave /\ [][NextCascade]_vars

\* compileManuscript reads the store and writes nothing: it is applied to
\* every store of up to three documents with distinct ids, which saveDocument
\* reaches (an update stores the createdAt its caller passes)
ContentById(id) ==
    IF id = "d1" THEN ContentA ELSE IF id = "d2" THEN ContentB ELSE ContentC

StoredDocs(id) ==
    {StringifyDoc([DocInput(id, m, ContentById(id), t) EXCEPT !.updatedAt = MaxTime]) :
        m \in MsIds \cup {Undefined}, t \in 0..MaxTime}

DocLists ==
    {list \in UNION {[1..n -> UNION {StoredDocs(id) : id \in DocIds}] : n \in 0..3} :
        \A i, j \in 1..Len(list) : list[i].id = list[j].id => i = j}

StoredMs(id) == [id |-> id, title |-> "M", createdAt |-> 0, updatedAt |-> 0]

InitCompile ==
    /\ InitAccIdle
    /\ now = MaxTime
    /\ lsDocs \in {JArr(list) : list \in DocLists}
    /\ lsManuscripts \in {NoItem, JArr(<<StoredMs("m1")>>),
                          JArr(<<StoredMs("m2"), StoredMs("m1")>>)}
    /\ lsSettings = NoItem
    /\ backupFile = NoItem
    /\ storage = "ok"
    /\ tabs = [t \in Tabs |-> Idle]
    /\ InitApp /\ op = [name |-> "init"]

NextCompile == \E id \in MsIds : callCompileManuscript(id)

SpecCompile == InitCompile /\ [][NextCompile]_vars

\* backup and restore, all within one reading of the clock
BackupInputs ==
    {DocInput(id, "m1", ContentA, now) : id \in SaveIds}
    \cup {DocInput(id, Undefined, ContentB, now) : id \in SaveIds}

\* the files restoreBackup is given: the last backup, that file with a
\* collection cut out, or a file that is no backup
RestoreInputs ==
    BadBlobs \cup (IF backupFile = NoItem THEN {}
                                          ELSE {backupFile} \cup Damaged(backupFile))

NextBackup ==
    \/ \E doc \in BackupInputs : saveDocument(doc) /\ now' = now
    \/ \E m \in MsInputs : saveManuscript(m) /\ now' = now
    \/ \E settings \in SettingsInputs : saveUserSettings(settings)
    \/ \E id \in SaveIds : deleteDocument(id)
    \/ handleDownloadBackup
    \/ \E jsonData \in RestoreInputs : restoreBackup(jsonData)

SpecBackup == InitSave /\ [][NextBackup]_vars

\* a file a person picks for restore need not come from this store: these
\* hold two sequences, as the validation asks, whose records repeat an id
ForeignBlobs ==
    {JObj([manuscripts |-> JArr(<<>>),
           documents |-> StringifyDocs(<<DocInput("d1", "m1", ContentA, 0),
                                         DocInput("d1", Undefined, ContentB, 0)>>)]),
     JObj([manuscripts |-> JArr(<<StoredMs("m1"), StoredMs("m1")>>),
           documents |-> JArr(<<>>)]),
     JObj([manuscripts |-> JArr(<<StoredMs("m2")>>),
           documents |-> StringifyDocs(<<DocInput("d2", "m2", ContentC, 0)>>)])}

\* a backup file whose userSettings field was taken out
WithoutSettings(b) == JObj([f \in DOMAIN b.v \ {"userSettings"} |-> b.v[f]])

\* the store and its user settings under backups made earlier or elsewhere
NextSettings ==
    \/ \E id \in SaveIds : saveDocument(DocInput(id, "m1", ContentA, now)) /\ now' = now
    \/ \E m \in MsInputs : saveManuscript(m) /\ now' = now
    \/ \E settings \in SettingsInputs : saveUserSettings(settings)
    \/ \E id \in SaveIds : deleteDocument(id)
    \/ handleDownloadBackup
    \/ /\ backupFile # NoItem
       /\ \E jsonData \in {backupFile, WithoutSettings(backupFile)} :
             restoreBackup(jsonData)

SpecSettings == InitSave /\ [][NextSettings]_vars

\* the store under its writers and under restoreBackup of any file
NextRestore ==
    \/ \E doc \in BackupInputs : saveDocument(doc) /\ now' = now
    \/ \E m \in MsInputs : saveManuscript(m) /\ now' = now
    \/ \E id \in SaveIds : deleteDocument(id)
    \/ \E id \in MsIds : deleteManuscript(id)
    \/ handleDownloadBackup
    \/ \E jsonData \in ForeignBlobs \cup {backupFile} : restoreBackup(jsonData)

SpecRestore == InitSave /\ [][NextRestore]_vars

\* the browser's storage fills up, is blocked, or works again
storageChange(mode) ==
    /\ storage # mode
    /\ storage' = mode
    /\ op' = [name |-> "storageChange"]
    /\ UNCHANGED <<now, lsDocs, lsManuscripts, lsSettings, backupFile, tabs, accVars, envVars, appVars>>

\* a settings entry that does not parse
corruptSettings ==
    /\ lsSettings # Garbage
    /\ lsSettings' = Garbage
    /\ op' = [name |-> "corruptSettings"]
    /\ UNCHANGED <<now, lsDocs, lsManuscripts, backupFile, storage, tabs, accVars, envVars, appVars>>

\* an entry of a collection that does not parse
corruptEntry(key) ==
    /\ IF key = "docs"
       THEN lsDocs # Garbage /\ lsDocs' = Garbage /\ lsManuscripts' = lsManuscripts
       ELSE lsManuscripts # Garbage /\ lsManuscripts' = Garbage /\ lsDocs' = lsDocs
    /\ op' = [name |-> "corruptEntry"]
    /\ UNCHANGED <<now, lsSettings, backupFile, storage, tabs, accVars, envVars, appVars>>

\* the store's writers over a storage that may fail, within one reading of
\* the clock
NextStorage ==
    \/ \E mode \in {"ok", "full", "down"} : storageChange(mode)
    \/ corruptSettings
    \/ \E key \in {"docs", "manuscripts"} : corruptEntry(key)
    \/ \E doc \in BackupInputs : saveDocument(doc) /\ now' = now
    \/ \E m \in MsInputs : saveManuscript(m) /\ now' = now
    \/ \E settings \in SettingsInputs : saveUserSettings(settings)
    \/ \E id \in SaveIds : deleteDocument(id)

SpecStorage == InitSave /\ [][NextStorage]_vars

\* two tabs over one storage: a tab's saveDocument reads, then writes, and
\* the other tab may run in between; deleteDocument runs in one piece
NextTabs ==
    \/ \E t \in Tabs, doc \in BackupInputs : tabRead(t, doc)
    \/ \E t \in Tabs : tabWrite(t)
    \/ \E id \in SaveIds : deleteDocument(id)

SpecTabs == InitSave /\ [][NextTabs]_vars

\* one capture session from a fresh hook: start(), then the backend's events
InitSession == InitAccIdle /\ InitStoreIdle /\ InitApp /\ op = [name |-> "init"]

NextSession ==
    \/ recognitionRef = 0 /\ startListening
    \/ \E k \in 1..MaxSessions : onstart(k)
    \/ \E k \in 1..MaxSessions : onend(k)
    \/ \E newFinals, newInterims \in SeqsUpTo(Words, MaxNew) :
          onresult(newFinals, newInterims)

SpecSession == InitSession /\ [][NextSession]_vars

\* one capture session that may be stopped; the backend delivers the end
\* notification of a session that is over
NextStop ==
    \/ recognitionRef = 0 /\ startListening
    \/ stopListening
    \/ \E k \in 1..MaxSessions : onstart(k)
    \/ \E k \in 1..MaxSessions : onend(k)
    \/ \E newFinals, newInterims \in SeqsUpTo(Words, MaxNew) :
          onresult(newFinals, newInterims)

SpecStop ==
    InitSession /\ [][NextStop]_vars /\ \A k \in 1..MaxSessions : WF_vars(onend(k))

\* capture sessions that end on their own or on an error, never by stop();
\* start() is called again once the session before is over
NextResume ==
    \/ /\ IF recognitionRef = 0 THEN TRUE ELSE sessions[recognitionRef] = "ended"
       /\ startListening
    \/ \E k \in 1..MaxSessions : onstart(k)
    \/ \E k \in 1..MaxSessions : onend(k)
    \/ \E k \in 1..MaxSessions, errorType \in {"network", "no-speech"} :
          onerror(k, errorType)
    \/ \E newFinals, newInterims \in SeqsUpTo({"a"}, 1) :
          onresult(newFinals, newInterims)

SpecResume == InitSession /\ [][NextResume]_vars

\* the application while a document is dictated: the recording view, its
\* sessions and the navigation buttons
NextRecord ==
    \/ handleNewDocument(Undefined)
    \/ handleStartRecording
    \/ handleStopRecording
    \/ \E k \in 1..MaxSessions : onstart(k)
    \/ \E k \in 1..MaxSessions : onend(k)
    \/ onresult(<<>>, <<"a">>) /\ results = <<>>
    \/ setDocTitle("T")
    \/ \E targetView \in AppState, confirmed \in BOOLEAN :
          handleNavClick(targetView, confirmed)

SpecRecord == InitSession /\ [][NextRecord]_vars

\* the application while a document is edited: text is typed, polished,
\* saved and deleted; the clock stands and nothing is dictated
PolishResults == {"p"}

NextEdit ==
    \/ handleNewDocument(Undefined)
    \/ \E i \in 1..Len(getDocuments) : handleOpenDocument(getDocuments[i])
    \/ typeTranscript("x ")
    \/ \E targetView \in AppState : handleNavClick(targetView, TRUE)
    \/ onBack
    \/ handleSaveDocument
    \/ handleDeleteDocument
    \/ \E id \in Issued : handleDeleteDoc(id)
    \/ handlePolish
    \/ \E result \in PolishResults : polishResolved(result)
    \/ polishRejected

SpecEdit == InitSession /\ [][NextEdit]_vars

\* the hook under every call and every backend event
InitHook == InitAcc /\ InitStoreIdle /\ InitApp /\ op = [name |-> "init"]

NextHook ==
    \/ startListening
    \/ stopListening /\ Len(confirmedText') <= MaxText
    \/ resetTranscript
    \/ \E text \in {"", "x "} : setTranscript(text)
    \/ \E k \in 1..MaxSessions : onstart(k)
    \/ \E k \in 1..MaxSessions : onend(k)
    \/ \E k \in 1..MaxSessions, errorType \in ErrorCodes : onerror(k, errorType)
    \/ \E newFinals, newInterims \in SeqsUpTo({"a"}, MaxNew) :
          onresult(newFinals, newInterims) /\ Len(confirmedText') <= MaxText

SpecHook == InitHook /\ [][NextHook]_vars

\* the hook's sessions and its error channel: every call and every event of
\* the sessions, the result events carrying one pending segment
NextErrors ==
    \/ startListening
    \/ stopListening
    \/ resetTranscript
    \/ \E k \in 1..MaxSessions : onstart(k)
    \/ \E k \in 1..MaxSessions : onend(k)
    \/ \E k \in 1..MaxSessions, errorType \in ErrorCodes : onerror(k, errorType)
    \/ onresult(<<>>, <<"a">>) /\ Len(confirmedText) < MaxText

SpecErrors == InitHook /\ [][NextErrors]_vars

-----------------------------------------------------------------------------
(* Claims on the accumulator *)

\* every segment of a list of slots followed by one space
RECURSIVE SpaceJoined(_)
SpaceJoined(slots) ==
    IF Len(slots) = 0 THEN ""
    ELSE Head(slots).transcript \o " " \o SpaceJoined(Tail(slots))

\* the segments of a list of slots, one after the other
RECURSIVE Joined(_)
Joined(slots) ==
    IF Len(slots) = 0 THEN ""
    ELSE Head(slots).transcript \o Joined(Tail(slots))

Interims(res) == SelectSeq(res, LAMBDA s : ~s.isFinal)

\* the text of the last interim slot of a list, "" when it has none
LastInterim(res) ==
    IF Len(Interims(res)) = 0 THEN ""
    ELSE Interims(res)[Len(Interims(res))].transcript

\* the slots of a result event from its resultIndex on
Window(event) == SubSeq(event.results, event.resultIndex + 1, Len(event.results))

C2_StopKeepsWords ==
    [][/\ (op'.name = "stop" /\ recognitionRef # 0) =>
              /\ confirmedText' = confirmedText \o interimText
              /\ interimText' = ""
       /\ (op'.name = "stop" /\ op.name = "stop") =>
              /\ confirmedText' = confirmedText
              /\ interimText' = interimText
      ]_vars

\* stop() folded a pending segment behind a final one
C2_Witness ==
    /\ op.name = "stop"
    /\ op.interim = "a"
    /\ recognitionRef # 0
    /\ sessions[recognitionRef] = "stopping"
    /\ confirmedText = "a a"
    /\ interimText = ""

\* C3: reset() yields confirmedText = "", interimText = "" and
\* isListening = false from any prior state.
C3_ResetClears ==
    op.name = "reset" =>
        confirmedText = "" /\ interimText = "" /\ isListening = FALSE

\* reset() came while the hook was listening with a segment pending
C3_Witness ==
    /\ op.name = "reset"
    /\ op.wasListening
    /\ op.interim # ""
    /\ recognitionRef # 0
    /\ sessions[recognitionRef] = "aborting"

-----------------------------------------------------------------------------
(* Claims on saveDocument and saveManuscript, under SpecSave *)

\* the records of a list that carry the id
CountId(list, id) == Cardinality({i \in 1..Len(list) : list[i].id = id})

C5_CreatedAtSetOnce ==
    [][/\ \A id \in SaveIds :
            (getDocument(id) # NoDocument /\ getDocument(id)' # NoDocument)
                => getDocument(id)'.createdAt = getDocument(id).createdAt
       /\ (Len(getManuscripts) > 0 /\ Len(getManuscripts') > 0)
                => getManuscripts'[1].createdAt = getManuscripts[1].createdAt
      ]_vars

-----------------------------------------------------------------------------
(* Claim on deleteManuscript, under SpecCascade *)

\* C6: deleteManuscript(id) removes the Manuscript with that id and every
\* Document whose manuscriptId equals id; every other Manuscript and every
\* Document with a different or absent manuscriptId stays, unchanged and in
\* the same relative order.
C6_CascadeDelete ==
    [][op'.name = "deleteManuscript" =>
        /\ \A i \in 1..Len(getManuscripts') : getManuscripts'[i].id # op'.id
        /\ \A i \in 1..Len(getDocuments') :
              ManuscriptIdOf(getDocuments'[i]) # op'.id
        /\ getManuscripts' = SelectSeq(getManuscripts, LAMBDA m : m.id # op'.id)
        /\ getDocuments' =
              SelectSeq(getDocuments, LAMBDA d : ManuscriptIdOf(d) # op'.id)
      ]_vars

\* a manuscript went with its chapter; the other manuscript, a chapter of
\* it and a standalone note are still there
C6_Witness ==
    /\ op.name = "deleteManuscript"
    /\ op.removed = 1
    /\ Len(getManuscripts) = 1
    /\ Len(getDocuments) = 2
    /\ \E i, j \in 1..2 :
          /\ ManuscriptIdOf(getDocuments[i]) = Undefined
          /\ ManuscriptIdOf(getDocuments[j]) = getManuscripts[1].id

-----------------------------------------------------------------------------
(* Claim on compileManuscript, under SpecCompile *)

\* the orders in which a set of positions of a list can be listed
Orderings(S) ==
    {f \in [1..Cardinality(S) -> S] : \A i, j \in DOMAIN f : f[i] = f[j] => i = j}

\* a titled block whose body is the polished text, or the raw text when
\* there is no polished text
TitledBlock(d) ==
    "--- " \o d.title \o " ---\n\n"
        \o (IF d.polishedText = "" THEN d.rawText ELSE d.polishedText) \o "\n\n"

RECURSIVE BlocksInOrder(_, _, _)
BlocksInOrder(list, f, i) ==
    IF i > Len(f) THEN "" ELSE TitledBlock(list[f[i]]) \o BlocksInOrder(list, f, i + 1)

\* C7: compileManuscript(id) for an existing manuscript emits exactly the
\* documents with manuscriptId = id, one titled block each, in an order of
\* ascending createdAt, each block's body being the chapter's polishedText
\* when that is non-empty and its rawText otherwise.
C7_CompileOrder ==
    (op.name = "compileManuscript"
        /\ \E i \in 1..Len(getManuscripts) : getManuscripts[i].id = op.id)
    => LET docs == getDocuments
           chapters == {i \in 1..Len(docs) : ManuscriptIdOf(docs[i]) = op.id}
       IN  \E f \in Orderings(chapters) :
              /\ \A i, j \in DOMAIN f :
                    i < j => docs[f[i]].createdAt <= docs[f[j]].createdAt
              /\ op.ret = BlocksInOrder(docs, f, 1)

\* chapters A, B, C stored in that order, created at 2, 0, 1, compile in the
\* order B, C, A; B has polished text, A has none, a note stands beside them
C7_Witness ==
    /\ op.name = "compileManuscript"
    /\ op.id = "m1"
    /\ Len(getManuscripts) = 2
    /\ Len(getDocuments) = 3
    /\ \A i \in 1..3 : ManuscriptIdOf(getDocuments[i]) = "m1"
    /\ getDocuments[1].title = "A" /\ getDocuments[1].createdAt = 2
    /\ getDocuments[2].title = "B" /\ getDocuments[2].createdAt = 0
    /\ getDocuments[3].title = "C" /\ getDocuments[3].createdAt = 1
    /\ op.ret = "--- B ---\n\np\n\n--- C ---\n\n\n\n--- A ---\n\nr\n\n"

-----------------------------------------------------------------------------
(* Claims on createBackup and restoreBackup, under SpecBackup *)

\* text that does not parse, or a value whose manuscripts or documents field
\* is missing or is no sequence
Malformed(b) ==
    \/ b.t = "garbage"
    \/ b.t # "object"
    \/ \E f \in {"manuscripts", "documents"} :
          f \notin DOMAIN b.v \/ b.v[f].t # "array"

\* C8: restoreBackup on input that fails to parse, or whose manuscripts or
\* documents field is missing or not a sequence, returns failure and leaves
\* the three storage entries unchanged.
C8_RestoreRejects ==
    [][(op'.name = "restoreBackup" /\ Malformed(op'.arg)) =>
        /\ op'.ret = FALSE
        /\ lsManuscripts' = lsManuscripts
        /\ lsDocs' = lsDocs
        /\ lsSettings' = lsSettings
      ]_vars

\* a backup whose documents field was cut out was refused by a store that
\* holds a manuscript, documents and settings
C8_Witness ==
    /\ op.name = "restoreBackup"
    /\ op.arg.t = "object"
    /\ "manuscripts" \in DOMAIN op.arg.v
    /\ "documents" \notin DOMAIN op.arg.v
    /\ Len(op.arg.v.manuscripts.v) = 1
    /\ ~op.ret
    /\ Len(getDocuments) = 2
    /\ Len(getManuscripts) = 1
    /\ getUserSettings # JNull

\* C9: createBackup() followed immediately by restoreBackup of the text it
\* produced reports success and leaves the manuscripts, the documents and
\* the user settings read from the store as they were.
C9_BackupRestoreNoOp ==
    [][(op.name = "createBackup" /\ op'.name = "restoreBackup"
            /\ op'.arg = backupFile) =>
        /\ op'.ret = TRUE
        /\ getManuscripts' = getManuscripts
        /\ getDocuments' = getDocuments
        /\ getUserSettings' = getUserSettings
      ]_vars

\* a backup of a store with documents and no user settings was restored
\* right after it was made
C9_Witness ==
    /\ op.name = "restoreBackup"
    /\ op.prev = "createBackup"
    /\ op.arg = backupFile
    /\ op.ret
    /\ Len(getDocuments) = 2
    /\ getUserSettings = JNull
    /\ lsSettings = NoItem

\* the same for the empty store
C9_WitnessEmpty ==
    /\ op.name = "restoreBackup"
    /\ op.prev = "createBackup"
    /\ op.arg = backupFile
    /\ getDocuments = <<>>
    /\ getManuscripts = <<>>

-----------------------------------------------------------------------------
(* Claims on the sessions and the error channel, under SpecErrors *)

\* the sessions that were created and have been neither aborted nor ended
Active == {k \in DOMAIN sessions : sessions[k] \in Capturing \cup {"failing"}}

\* C11: after any sequence of start(), stop(), reset() and backend events at
\* most one created session has been neither aborted nor ended.
C11_OneActiveSession == Cardinality(Active) <= 1

\* start() came while a session was capturing: the old one is aborted and
\* still owes its end, the new one is the only active one
C11_Witness ==
    /\ op.name = "start"
    /\ Len(sessions) = 2
    /\ sessions[1] = "aborting"
    /\ sessions[2] = "starting"
    /\ Active = {2}

\* C12: a "no-speech" error event sets no error and changes no state: the
\* error, the texts and isListening are what they were, so a listening
\* accumulator stays listening.
C12_NoSpeechAbsorbed ==
    [][(op'.name = "onerror" /\ op'.code = "no-speech") =>
        /\ error' = error
        /\ confirmedText' = confirmedText
        /\ interimText' = interimText
        /\ isListening' = isListening
      ]_vars

\* C13: after reset() error is None whatever it was before, and it stays
\* None when the session reset() aborted delivers its end or its error
\* notification.
C13_ResetClearsError ==
    [][/\ op'.name = "reset" => error' = Null
       /\ (op.name = "reset" /\ op'.name \in {"onend", "onerror"}
              /\ op'.session = recognitionRef) => error' = Null
      ]_vars

\* C14: start() without a backend sets the error, creates no session and
\* leaves isListening false; start() with a backend clears the error and
\* creates a session, and isListening is true once the backend reports that
\* session started.
C14_StartOutcome ==
    [][/\ (op'.name = "start" /\ ~available) =>
              /\ error' = ErrUnsupported
              /\ sessions' = sessions
              /\ recognitionRef' = recognitionRef
              /\ isListening' = FALSE
       /\ (op'.name = "start" /\ available) =>
              /\ error' = Null
              /\ Len(sessions') = Len(sessions) + 1
              /\ recognitionRef' = Len(sessions')
              /\ sessions'[recognitionRef'] = "starting"
       /\ (op'.name = "onstart" /\ op'.session = recognitionRef) =>
              /\ isListening' = TRUE
              /\ error' = error
      ]_vars

\* start() with a backend came while an error was shown
C14_Witness ==
    /\ op.name = "start"
    /\ op.hadError
    /\ available
    /\ error = Null
    /\ sessions[recognitionRef] = "starting"

\* start() without a backend
C14_WitnessUnavailable ==
    /\ op.name = "start"
    /\ ~available
    /\ error = ErrUnsupported
    /\ sessions = <<>>
    /\ ~isListening

\* C15: "not-allowed" and "service-not-allowed" yield the permission error,
\* "no-speech" leaves error as it was, every other code yields the generic
\* error carrying that code; no error event changes confirmedText or
\* interimText.
C15_ErrorMapping ==
    [][op'.name = "onerror" =>
        /\ op'.code \in {"not-allowed", "service-not-allowed"} =>
              error' = "Microphone access denied or speech service unavailable."
        /\ op'.code = "no-speech" => error' = error
        /\ op'.code \notin {"not-allowed", "service-not-allowed", "no-speech"} =>
              error' = "Error occurred: " \o op'.code
        /\ confirmedText' = confirmedText
        /\ interimText' = interimText
      ]_vars

\* "network" came while a segment was pending behind a confirmed one
C15_Witness ==
    /\ op.name = "onerror"
    /\ op.code = "network"
    /\ error = "Error occurred: network"
    /\ confirmedText = "a"
    /\ interimText = "a"

\* "no-speech" came to the second session while its segment was pending
C15_WitnessNoSpeech ==
    /\ op.name = "onerror"
    /\ op.code = "no-speech"
    /\ op.session = 2
    /\ error = Null
    /\ interimText # ""

-----------------------------------------------------------------------------
(* Claim on the uniqueness of ids, under SpecRestore *)

UniqueIds(list) == \A i, j \in 1..Len(list) : list[i].id = list[j].id => i = j

\* the lists a file holds, empty when it holds none
ListIn(b, field) ==
    IF b.t = "object" /\ field \in DOMAIN b.v /\ b.v[field].t = "array"
    THEN b.v[field].v ELSE <<>>

\* C16, as claimed: after any sequence of saveDocument, deleteDocument,
\* deleteManuscript and successful restoreBackup calls no two Documents and
\* no two Manuscripts of the store share an id.
C16_IdsUnique == UniqueIds(getDocuments) /\ UniqueIds(getManuscripts)

\* C16, amended: saveDocument, saveManuscript, deleteDocument and
\* deleteManuscript keep ids unique, and so does restoreBackup of a file
\* whose own lists hold no id twice; a successful restoreBackup stores the
\* lists of its file as they are, repeated ids included.
C16_WritersKeepIdsUnique ==
    [][/\ (/\ UniqueIds(getDocuments) /\ UniqueIds(getManuscripts)
           /\ op'.name = "restoreBackup" =>
                 /\ UniqueIds(ListIn(op'.arg, "documents"))
                 /\ UniqueIds(ListIn(op'.arg, "manuscripts")))
          => UniqueIds(getDocuments') /\ UniqueIds(getManuscripts')
       /\ (op'.name = "restoreBackup" /\ op'.ret) =>
              /\ getDocuments' = ListIn(op'.arg, "documents")
              /\ getManuscripts' = ListIn(op'.arg, "manuscripts")
      ]_vars

\* a document was saved again in a store that a restored backup of this
\* store had filled with two documents and a manuscript
C16_Witness ==
    /\ op.name = "saveDocument"
    /\ ~op.isNew
    /\ backupFile # NoItem
    /\ lsDocs = backupFile.v.documents
    /\ Len(getDocuments) = 2
    /\ Len(getManuscripts) = 1
    /\ UniqueIds(getDocuments)

-----------------------------------------------------------------------------
(* Claim on deleteDocument, under SpecBackup *)

\* C17: deleteDocument(id) removes the record with that id and nothing
\* else; when no record has that id the list of documents read afterwards
\* equals the list read before; manuscripts and user settings are not
\* touched.
C17_DeleteDocument ==
    [][op'.name = "deleteDocument" =>
        /\ getDocuments' = SelectSeq(getDocuments, LAMBDA d : d.id # op'.id)
        /\ (\A i \in 1..Len(getDocuments) : getDocuments[i].id # op'.id)
              => getDocuments' = getDocuments
        /\ lsManuscripts' = lsManuscripts
        /\ lsSettings' = lsSettings
      ]_vars

\* an id that is not stored was deleted from a store that holds another
\* document, a manuscript and settings
C17_Witness ==
    /\ op.name = "deleteDocument"
    /\ op.removed = 0
    /\ Len(getDocuments) = 1
    /\ Len(getManuscripts) = 1
    /\ getUserSettings # JNull

\* a stored document was deleted and the other one stayed
C17_WitnessRemoved ==
    /\ op.name = "deleteDocument"
    /\ op.removed = 1
    /\ Len(getDocuments) = 1
    /\ getDocuments[1].id # op.id

-----------------------------------------------------------------------------
(* Claim on compileManuscript's frame, under SpecCompile *)

\* C18: compileManuscript(id) yields the empty result when no Manuscript
\* has that id, whatever the documents carry, and in every case leaves the
\* three entries of the store, and so the order of the stored documents, as
\* they were.
C18_CompileFrame ==
    [][op'.name = "compileManuscript" =>
        /\ (\A i \in 1..Len(getManuscripts) : getManuscripts[i].id # op'.id)
              => op'.ret = ""
        /\ lsDocs' = lsDocs
        /\ lsManuscripts' = lsManuscripts
        /\ lsSettings' = lsSettings
        /\ getDocuments' = getDocuments
      ]_vars

\* m2 was compiled in a store that holds the manuscript m1 alone and two
\* chapters of m2, the later one stored first
C18_Witness ==
    /\ op.name = "compileManuscript"
    /\ op.id = "m2"
    /\ op.ret = ""
    /\ Len(getManuscripts) = 1
    /\ getManuscripts[1].id = "m1"
    /\ Len(getDocuments) = 2
    /\ \A i \in 1..2 : ManuscriptIdOf(getDocuments[i]) = "m2"
    /\ getDocuments[1].createdAt > getDocuments[2].createdAt

\* an existing manuscript was compiled, its chapters stored out of order,
\* and the stored order is what it was
C18_WitnessExisting ==
    /\ op.name = "compileManuscript"
    /\ op.id = "m1"
    /\ op.ret # ""
    /\ Len(getManuscripts) = 1
    /\ Len(getDocuments) = 2
    /\ \A i \in 1..2 : ManuscriptIdOf(getDocuments[i]) = "m1"
    /\ getDocuments[1].createdAt > getDocuments[2].createdAt

-----------------------------------------------------------------------------
(* Claim on a failing storage, under SpecStorage *)

\* C19: while the storage is inaccessible, or where an entry is unreadable,
\* the reads yield an empty collection or null; a write of saveDocument,
\* saveManuscript or deleteDocument that fails is reported to the caller
\* and leaves the stored collections as they were.
C19_StorageFailure ==
    [][/\ storage' = "down" =>
              /\ getManuscripts' = <<>>
              /\ getDocuments' = <<>>
              /\ getUserSettings' = [t |-> "null"]
       /\ lsDocs' = [t |-> "garbage"] => getDocuments' = <<>>
       /\ lsManuscripts' = [t |-> "garbage"] => getManuscripts' = <<>>
       /\ lsSettings' = [t |-> "garbage"] => getUserSettings' = [t |-> "null"]
       /\ (op'.name \in {"saveDocument", "saveManuscript", "deleteDocument"}
              /\ storage # "ok") =>
              /\ op'.threw
              /\ lsDocs' = lsDocs
              /\ lsManuscripts' = lsManuscripts
              /\ lsSettings' = lsSettings
       /\ (op'.name \in {"saveDocument", "saveManuscript", "deleteDocument"}
              /\ storage = "ok") => ~op'.threw
      ]_vars

\* a new document could not be saved to a full storage that holds another
\* one, and the storage is as it was
C19_Witness ==
    /\ op.name = "saveDocument"
    /\ op.threw
    /\ op.isNew
    /\ storage = "full"
    /\ Len(getDocuments) = 1
    /\ getDocuments[1].id # op.arg.id

\* the storage went down over two stored documents, a manuscript and
\* settings, and the reads are empty
C19_WitnessDown ==
    /\ storage = "down"
    /\ lsDocs.t = "array"
    /\ Len(lsDocs.v) = 2
    /\ lsManuscripts.t = "array"
    /\ lsSettings.t = "object"
    /\ getDocuments = <<>>
    /\ getManuscripts = <<>>
    /\ getUserSettings = JNull

-----------------------------------------------------------------------------
(* Claim on concurrent writers, under SpecTabs *)

\* the ids of a list
IdsOf(list) == {list[i].id : i \in 1..Len(list)}

\* C20: a saveDocument whose write follows its read with no other write in
\* between loses nothing: its document is stored and every other stored
\* document stays; deleteDocument, run in one piece, removes its id alone.
\* A saveDocument whose read is out of date at its write stores the list it
\* read with its document: what other writers stored since is gone.
C20_ReadModifyWrite ==
    [][/\ (op'.name = "tabWrite" /\ op'.read = getDocuments) =>
              /\ op'.arg.id \in IdsOf(getDocuments')
              /\ IdsOf(getDocuments') = IdsOf(getDocuments) \cup {op'.arg.id}
              /\ SelectSeq(getDocuments', LAMBDA d : d.id # op'.arg.id)
                    = SelectSeq(getDocuments, LAMBDA d : d.id # op'.arg.id)
       /\ op'.name = "deleteDocument" =>
              IdsOf(getDocuments') = IdsOf(getDocuments) \ {op'.id}
       /\ (op'.name = "tabWrite" /\ op'.read # getDocuments) =>
              IdsOf(getDocuments') = IdsOf(op'.read) \cup {op'.arg.id}
      ]_vars

\* both tabs saved, d1 in one and d2 in the other, each having read the
\* empty store; d1 was stored when d2 was written, both calls are over and
\* d2 alone is stored
C20_Witness ==
    /\ op.name = "tabWrite"
    /\ op.read = <<>>
    /\ op.stored = {"d1"}
    /\ \A t \in Tabs : tabs[t] = Idle
    /\ Len(getDocuments) = 1
    /\ getDocuments[1].id = op.arg.id
    /\ op.arg.id = "d2"
    /\ op.tab = "tab2"

\* one writer: a tab saved d2 after d1, reading what the first save wrote
C20_WitnessOneWriter ==
    /\ op.name = "tabWrite"
    /\ Len(op.read) = 1
    /\ Len(getDocuments) = 2
    /\ getDocuments[1].id = "d1"
    /\ getDocuments[2].id = "d2"

-----------------------------------------------------------------------------
(* Claim on stop() and the end notification, under SpecStop *)

\* C23: a session that stop() was called on delivers its end notification
\* (the backend being fair to it), every end notification leaves
\* isListening false, and a stop() that finds interimText empty leaves the
\* transcript as it was.
C23_StopEndsListening ==
    /\ \A k \in 1..MaxSessions :
          (k \in DOMAIN sessions /\ sessions[k] = "stopping")
              ~> (op.name = "onend" /\ op.session = k /\ ~isListening)
    /\ [][op'.name = "onend" => isListening' = FALSE]_vars
    /\ [][(op'.name = "stop" /\ interimText = "") =>
              confirmedText' \o interimText' = confirmedText \o interimText]_vars

\* start, the interim segment "a", the final segment "b" in its place, then
\* stop(): the transcript is still "b " and the end has yet to come
C23_Witness ==
    /\ op.name = "stop"
    /\ op.interim = ""
    /\ sessions = <<"stopping">>
    /\ Len(results) = 1
    /\ confirmedText \o interimText = "b "
    /\ isListening

\* the end notification of that session came
C23_WitnessEnded ==
    /\ op.name = "onend"
    /\ sessions = <<"ended">>
    /\ Len(results) = 1
    /\ confirmedText \o interimText = "b "
    /\ ~isListening

\* C25: stop() never duplicates words. When stop() has just folded a
\* non-empty interimText into confirmedText and the next event of the session
\* is the final result of that pending utterance (the same text, now final,
\* nothing pending after it), the transcript holds every final segment of the
\* session once, each followed by one space.
C25_StopNeverDuplicates ==
    [][(/\ op.name = "stop"
        /\ op.interim # ""
        /\ op'.name = "onresult"
        /\ Interims(results') = <<>>
        /\ Joined(Window(op')) = op.interim)
          => confirmedText' \o interimText' = SpaceJoined(results')]_vars

-----------------------------------------------------------------------------
(* Claims on replaced sessions, under SpecErrors *)

\* C26: isListening tracks the current session only. Once the session that
\* start() created last has started, an end or error notification of an older
\* session changes neither isListening nor error, and isListening is true
\* while the current session has started and has neither ended nor failed.
C26_CurrentSessionOnly ==
    [][/\ (/\ op'.name \in {"onend", "onerror"}
            /\ op'.session # recognitionRef
            /\ recognitionRef # 0
            /\ sessions[recognitionRef] = "running")
              => (isListening' = isListening /\ error' = error)
       /\ (recognitionRef' # 0 /\ sessions'[recognitionRef'] = "running")
              => isListening']_vars

-----------------------------------------------------------------------------
(* Claim on sessions that end without stop(), under SpecResume *)

\* C28: interim text is not lost when a session ends without stop(). When
\* the session before has ended on its own or on an error, interimText is
\* still non-empty and the first result event of the session started
\* afterwards arrives, the transcript is the transcript before the event
\* followed by the segments of the event.
C28_InterimSurvivesEnd ==
    [][(/\ op'.name = "onresult"
        /\ results = <<>>
        /\ interimText # ""
        /\ \A j \in 1..(recognitionRef - 1) : sessions[j] = "ended")
          => confirmedText' \o interimText' =
                 confirmedText \o interimText
                     \o SpaceJoined(Finals(Window(op')))
                     \o Joined(Interims(Window(op')))]_vars

-----------------------------------------------------------------------------
(* Claim on what a restore replaces, under SpecSettings *)

\* the user settings a backup file carries, null when it has none
SettingsOf(b) ==
    IF "userSettings" \in DOMAIN b.v /\ b.v.userSettings.t = "object"
    THEN b.v.userSettings.v
    ELSE JNull

\* C29, as claimed: after a successful restoreBackup(b) the manuscripts, the
\* documents and the user settings read from the store are those of b, also
\* when b carries userSettings = null or no userSettings at all.
C29_StoreEqualsBackup ==
    [][(op'.name = "restoreBackup" /\ op'.ret) =>
        /\ getManuscripts' = ParseList(op'.arg.v.manuscripts)
        /\ getDocuments' = ParseList(op'.arg.v.documents)
        /\ getUserSettings' = SettingsOf(op'.arg)
      ]_vars

\* C29, amended: after a successful restoreBackup(b) the manuscripts and the
\* documents read from the store are those of b; the user settings are those
\* of b when b carries settings, and the settings the store held before when
\* b carries userSettings = null or no userSettings at all.
C29_RestoreReplaces ==
    [][(op'.name = "restoreBackup" /\ op'.ret) =>
        /\ getManuscripts' = ParseList(op'.arg.v.manuscripts)
        /\ getDocuments' = ParseList(op'.arg.v.documents)
        /\ getUserSettings' = IF SettingsOf(op'.arg) # JNull
                               THEN SettingsOf(op'.arg)
                               ELSE getUserSettings
      ]_vars

\* a backup made before the user had settings was restored into a store that
\* holds settings: the store has the backup's document and its own settings
C29_Witness ==
    /\ op.name = "restoreBackup"
    /\ op.ret
    /\ op.arg = backupFile
    /\ op.arg.v.userSettings = JNull
    /\ Len(op.arg.v.documents.v) = 1
    /\ getDocuments = op.arg.v.documents.v
    /\ getUserSettings # JNull

\* the same for a file that has no userSettings field
C29_WitnessOmitted ==
    /\ op.name = "restoreBackup"
    /\ op.ret
    /\ "userSettings" \notin DOMAIN op.arg.v
    /\ Len(getDocuments) = 1
    /\ getUserSettings # JNull

-----------------------------------------------------------------------------
(* Claims on the application, under SpecEdit and SpecRecord *)

\* C21: a failed AI-polish call commits nothing. The failure is shown to the
\* user, and rawText, polishedText and the three storage entries are as they
\* were before the call failed; no save is issued.
C21_FailedPolishCommitsNothing ==
    [][op'.name = "polishRejected" =>
        /\ op'.alert # ""
        /\ confirmedText' \o interimText' = confirmedText \o interimText
        /\ app'.polishedText = app.polishedText
        /\ app'.currentDocId = app.currentDocId
        /\ lsDocs' = lsDocs
        /\ lsManuscripts' = lsManuscripts
        /\ lsSettings' = lsSettings
      ]_vars

\* the polish of a stored document that already had a polished text failed:
\* the text on screen and the stored record still hold "x " and "p"
C21_Witness ==
    /\ op.name = "polishRejected"
    /\ app.view = EDITING
    /\ app.polishedText = "p"
    /\ confirmedText = "x "
    /\ app.currentDocId = "u1"
    /\ Len(getDocuments) = 1
    /\ getDocuments[1].polishedText = "p"
    /\ getDocuments[1].rawText = "x "

\* C22, as claimed: after the user stops recording, or navigates away from
\* the recording view, with a non-empty transcript, the store holds a
\* Document whose rawText equals the visible transcript at that moment.
C22_SavedOnStopOrNavigation ==
    [][(/\ app.view = RECORDING
        /\ \/ op'.name = "stop"
           \/ op'.name = "handleNavClick" /\ app'.view # RECORDING
        /\ confirmedText' \o interimText' # "")
          => \E i \in 1..Len(getDocuments') :
                getDocuments'[i].rawText = confirmedText' \o interimText']_vars

\* C22, amended: a navigation click that is not cancelled and goes to the
\* library, with a non-empty transcript or title, leaves in the store the
\* record of the current document with rawText equal to the visible
\* transcript; every other navigation click, and stopping the recording,
\* leaves the documents entry as it was.
C22_SavedOnLibraryNavigation ==
    [][/\ op'.name = "handleNavClick" =>
            IF /\ ~op'.cancelled
               /\ op'.target = LIBRARY
               /\ (confirmedText \o interimText # "" \/ app.docTitle # "")
            THEN \E i \in 1..Len(getDocuments') :
                    /\ getDocuments'[i].id = app'.currentDocId
                    /\ getDocuments'[i].rawText = confirmedText' \o interimText'
            ELSE lsDocs' = lsDocs
       /\ op'.name = "stop" => lsDocs' = lsDocs
      ]_vars

\* the library button was pressed while the recording view was listening
\* with the segment "a" pending: the session is stopped and the new record
\* holds "a"
C22_Witness ==
    /\ op.name = "handleNavClick"
    /\ op.target = LIBRARY
    /\ ~op.cancelled
    /\ app.view = LIBRARY
    /\ recognitionRef # 0
    /\ sessions[recognitionRef] = "stopping"
    /\ confirmedText = "a"
    /\ interimText = ""
    /\ app.currentDocId = "u1"
    /\ Len(getDocuments) = 1
    /\ getDocuments[1].rawText = "a"

\* the editing view was opened from the recording view with "a" on screen:
\* nothing was saved
C22_WitnessNotSaved ==
    /\ op.name = "handleNavClick"
    /\ op.target = EDITING
    /\ app.view = EDITING
    /\ confirmedText = "a"
    /\ app.currentDocId = Null
    /\ getDocuments = <<>>

\* C24: the automatic save after a successful polish writes the polish
\* result to the store. When the polish call of the open document has
\* returned, the stored record of that document has polishedText equal to the
\* returned text.
C24_PolishResultStored ==
    [][(op'.name = "polishResolved" /\ op'.current) =>
        \E i \in 1..Len(getDocuments') :
            /\ getDocuments'[i].id = op'.id
            /\ getDocuments'[i].polishedText = op'.result
      ]_vars

\* C27: a deleted document stays deleted. A navigation click adds no record
\* under an id that was given out earlier and is no longer in the store: the
\* records it leaves have ids the store held before the click or an id
\* randomUUID() returned during the click.
C27_DeletedStaysDeleted ==
    [][op'.name = "handleNavClick" =>
        \A i \in 1..Len(getDocuments') :
            \/ getDocuments'[i].id \in IdsOf(getDocuments)
            \/ getDocuments'[i].id \notin Issued
      ]_vars

\* C30: one open document maps to one stored record. Once the open document
\* has its record in the store, a save of that document (Save Draft, the
\* auto-save of a navigation click, the auto-save of its own polish call when
\* it returns) overwrites that record: the store holds as many records after
\* the save as before.
C30_OneRecordPerDocument ==
    [][(/\ \/ op'.name \in {"handleSaveDocument", "handleNavClick"}
           \/ op'.name = "polishResolved" /\ op'.current
        /\ app.currentDocId \in IdsOf(getDocuments))
          => Len(getDocuments') = Len(getDocuments)]_vars

=============================================================================
